---- MODULE Spec2Model ----
(***************************************************************************)
(* Model of the speech harvester: collect_and_update_data.py (sequential   *)
(* crawl, replace-and-sort store) and monitor_website.py (concurrent       *)
(* fan-out, append-only store).  Both scripts work on the same file,       *)
(* ./data/discursos_milei.csv.                                             *)
(*                                                                         *)
(* Texts are modelled as their whitespace-separated tokens.  A token is a  *)
(* word (an atomic string) or a run of decimal digits (a sequence of       *)
(* 0..9), so that zero padding and digit counts are visible.  A URL is a   *)
(* number; the h2 and the article body of the page at a URL are named by   *)
(* that number.  A formatted date is the three digit runs between the      *)
(* dashes of 'YYYY-MM-DD'; the empty tuple is the absent date (NaN, None,  *)
(* the empty field of the file).                                           *)
(***************************************************************************)
EXTENDS Integers, Sequences, FiniteSets, TLC

VARIABLES
    dir,        \* the directory ./data exists
    store,      \* the file ./data/discursos_milei.csv
    pc,         \* position of the running script: idle, a step, done, crashed
    prog,       \* the script of the current (or last) run: collect / monitor
    err,        \* exception that ended the run, or that append_to_csv logged
    listed,     \* the set of the URLs the run's first index fetch returned
    new_urls,   \* the new-URL delta of the run
    branch,     \* "new" (delta non-empty) or "resync" (delta empty)
    todo,       \* the batch the run fetches, in order
    outcomes,   \* per batch position: outcome of its fetch ("pending" before)
    soups,      \* monitor: per batch position, the soup its task returned, or None
    order,      \* monitor: batch positions in the order their fetches completed
    data,       \* the records extracted by the run
    pre,        \* the store as the run found it
    last,       \* summary of the previous run, kept between two runs
    repeat,     \* the run repeats the previous run: same script, same URLs listed
    glibc,      \* strftime is the GNU C library's (no zero padding of %Y)
    soup,       \* the document handed to get_date by a direct call
    caller,     \* which get_date the direct call used
    result      \* what the direct call returned or raised

vars == <<dir, store, pc, prog, err, listed, new_urls, branch, todo, outcomes,
          soups, order, data, pre, last, repeat, glibc, soup, caller,
          result>>

pipeVars == <<dir, store, pc, prog, err, listed, new_urls, branch, todo,
              outcomes, soups, order, data, pre, last, repeat>>

dateVars == <<soup, caller, result>>

-----------------------------------------------------------------------------
(* Tokens and numbers *)

W(s) == [w |-> s, d |-> <<>>]

N(ds) == [w |-> "", d |-> ds]

IsNum(t) == t.w = "" /\ Len(t.d) > 0

RECURSIVE Value(_)
Value(ds) ==
    IF ds = <<>> THEN 0 ELSE 10 * Value(SubSeq(ds, 1, Len(ds) - 1)) + ds[Len(ds)]

RECURSIVE Digits(_)
Digits(n) == IF n < 10 THEN <<n>> ELSE Digits(n \div 10) \o <<n % 10>>

RECURSIVE ZeroPad(_, _)
ZeroPad(ds, width) == IF Len(ds) >= width THEN ds ELSE ZeroPad(<<0>> \o ds, width)

-----------------------------------------------------------------------------
(* Date normalisation *)

month_map ==
    [enero |-> <<0, 1>>, febrero |-> <<0, 2>>, marzo |-> <<0, 3>>,
     abril |-> <<0, 4>>, mayo |-> <<0, 5>>, junio |-> <<0, 6>>,
     julio |-> <<0, 7>>, agosto |-> <<0, 8>>, septiembre |-> <<0, 9>>,
     octubre |-> <<1, 0>>, noviembre |-> <<1, 1>>, diciembre |-> <<1, 2>>]

\* variant: date.split()[0:], the first token is kept
KeepFirst(tokens) == tokens

\* date.split()[1:]: the tokens of the text without the first one
DropFirst(tokens) == IF tokens = <<>> THEN <<>> ELSE Tail(tokens)

\* the loop date.replace(month_name, month_number) over month_map
ReplaceMonths(tokens) ==
    [i \in 1..Len(tokens) |->
        IF tokens[i].w \in DOMAIN month_map THEN N(month_map[tokens[i].w])
        ELSE tokens[i]]

IsLeap(y) == (y % 4 = 0 /\ y % 100 # 0) \/ y % 400 = 0

DaysInMonth(y, m) ==
    IF m = 2 THEN (IF IsLeap(y) THEN 29 ELSE 28)
    ELSE IF m \in {4, 6, 9, 11} THEN 30 ELSE 31

\* the directives of datetime.strptime: %d and %m take one or two digits and
\* refuse zero, %Y takes exactly four digits
MatchDay(t) == IsNum(t) /\ Len(t.d) <= 2 /\ Value(t.d) \in 1..31

MatchMonth(t) == IsNum(t) /\ Len(t.d) <= 2 /\ Value(t.d) \in 1..12

MatchYear(t) == IsNum(t) /\ Len(t.d) = 4

NoDate == [ok |-> FALSE, y |-> 0, m |-> 0, d |-> 0]

\* datetime.datetime.strptime(date, "%d de %m de %Y"); ok = FALSE is ValueError
strptime(tokens) ==
    IF /\ Len(tokens) = 5
       /\ MatchDay(tokens[1])
       /\ tokens[2] = W("de")
       /\ MatchMonth(tokens[3])
       /\ tokens[4] = W("de")
       /\ MatchYear(tokens[5])
    THEN LET y == Value(tokens[5].d)
             m == Value(tokens[3].d)
             d == Value(tokens[1].d)
         IN  IF y >= 1 /\ d <= DaysInMonth(y, m)
             THEN [ok |-> TRUE, y |-> y, m |-> m, d |-> d]
             ELSE NoDate
    ELSE NoDate

\* .strftime("%Y-%m-%d"): the three digit runs between the dashes
strftime(t, gnu) ==
    <<IF gnu THEN Digits(t.y) ELSE ZeroPad(Digits(t.y), 4),
      ZeroPad(Digits(t.m), 2),
      ZeroPad(Digits(t.d), 2)>>

Returned(v) == [kind |-> "date", val |-> v, exc |-> ""]

Absent == [kind |-> "absent", val |-> <<>>, exc |-> ""]

Raised(e) == [kind |-> "raise", val |-> <<>>, exc |-> e]

NotCalled == [kind |-> "none", val |-> <<>>, exc |-> ""]

NoTime == [has_time |-> FALSE, text |-> <<>>]

Doc(tokens) == [has_time |-> TRUE, text |-> tokens]

\* collect_and_update_data.get_date
collect_get_date(s, gnu) ==
    IF ~s.has_time THEN Raised("AttributeError")
    ELSE LET t == strptime(ReplaceMonths(DropFirst(s.text)))
         IN  IF t.ok THEN Returned(strftime(t, gnu)) ELSE Absent

\* monitor_website.get_date
monitor_get_date(s, gnu) ==
    IF s.has_time
    THEN LET t == strptime(ReplaceMonths(DropFirst(s.text)))
         IN  IF t.ok THEN Returned(strftime(t, gnu)) ELSE Raised("ValueError")
    ELSE Absent

-----------------------------------------------------------------------------
(* Bounds of the model *)

\* the URLs of the site
NUrls == 2

\* the anchors the index page shows at most
MaxPage == 2

\* the rows the store file holds at most (the runs that would make it longer
\* are left out)
MaxRows == 2

URLs == 1..NUrls

-----------------------------------------------------------------------------
(* Pages of the site *)

GoodText ==
    <<W("lunes"), N(<<1, 3>>), W("de"), W("febrero"), W("de"), N(<<2, 0, 2, 5>>)>>

\* the text of test_get_date: no day of the week before the day
TestText == <<N(<<1, 3>>), W("de"), W("febrero"), W("de"), N(<<2, 0, 2, 5>>)>>

\* the time elements an article page may carry
PageTimes == {Doc(GoodText), Doc(TestText), NoTime}

\* BeautifulSoup(html) of the article at url u: its h2 and its article body
\* are named by u, its time element is t
Page(u, t) ==
    [title |-> u, content |-> u, has_time |-> t.has_time, text |-> t.text]

None == [title |-> 0, content |-> 0, has_time |-> FALSE, text |-> <<>>]

\* responses of the index page: an error, or the hrefs of the anchors that
\* the selector and the keyword filter keep, in document order
IndexResponses ==
    {[ok |-> FALSE, hrefs |-> <<>>]} \cup
    {[ok |-> TRUE, hrefs |-> h] : h \in UNION {[1..n -> URLs] : n \in 0..MaxPage}}

get_discursos_urls(resp) == IF resp.ok THEN resp.hrefs ELSE <<>>

get_title(s) == s.title

get_article_content(s) == s.content

-----------------------------------------------------------------------------
(* The store file *)

NoFile == [exists |-> FALSE, header |-> FALSE, rows |-> <<>>]

Set(s) == {s[i] : i \in DOMAIN s}

Urls(rows) == [i \in 1..Len(rows) |-> rows[i].url]

\* pd.read_csv(filename)["url"].tolist().  The first line of the file names
\* the columns: a file that starts with a record has no column "url".
pd_read_url(st) ==
    IF ~st.exists THEN [exc |-> "FileNotFoundError", urls |-> <<>>]
    ELSE IF ~st.header /\ st.rows = <<>> THEN [exc |-> "EmptyDataError", urls |-> <<>>]
    ELSE IF ~st.header THEN [exc |-> "KeyError", urls |-> <<>>]
    ELSE [exc |-> "", urls |-> Urls(st.rows)]

\* monitor_website.read_csv: every exception is logged and gives []
read_csv(st) == pd_read_url(st).urls

\* variant: open(filename, "w"), the file is truncated before the rows
append_truncating(rows, st) == [exists |-> TRUE, header |-> FALSE, rows |-> rows]

\* monitor_website.append_to_csv: open(filename, "a") and the rows, no header
append_to_csv(rows, st) ==
    [exists |-> TRUE, header |-> st.exists /\ st.header, rows |-> st.rows \o rows]

\* monitor_website.write_to_csv and DataFrame.to_csv: header, then the rows
write_to_csv(rows) == [exists |-> TRUE, header |-> TRUE, rows |-> rows]

RECURSIVE LexLess(_, _)
LexLess(a, b) ==
    IF b = <<>> THEN FALSE
    ELSE IF a = <<>> THEN TRUE
    ELSE IF Head(a) # Head(b) THEN Head(a) < Head(b)
    ELSE LexLess(Tail(a), Tail(b))

\* the order of the date column: strings by their characters, NaN below all
DateLess(a, b) ==
    IF b = <<>> THEN FALSE
    ELSE IF a = <<>> THEN TRUE
    ELSE LexLess(a[1] \o a[2] \o a[3], b[1] \o b[2] \o b[3])

\* sort_values(by='date', ascending=False): any arrangement of the rows with
\* the dates descending and NaN last (rows with equal dates in any order)
sort_values(rows) ==
    LET n == Len(rows)
        arr == {p \in [1..n -> 1..n] : \A i, j \in 1..n : i # j => p[i] # p[j]}
    IN  {[i \in 1..n |-> rows[p[i]]] : p \in
            {q \in arr : \A i, j \in 1..n :
                i < j => ~DateLess(rows[q[i]].date, rows[q[j]].date)}}

\* list(set(current_urls).difference(existing_urls)): the set, in any order
set_difference(current, existing) ==
    LET S == Set(current) \ Set(existing)
        n == Cardinality(S)
    IN  {p \in [1..n -> S] : \A i, j \in 1..n : i # j => p[i] # p[j]}

\* [url for url in discursos_urls if url not in existing_urls]
RECURSIVE not_in(_, _)
not_in(urls, existing) ==
    IF urls = <<>> THEN <<>>
    ELSE (IF Head(urls) \in Set(existing) THEN <<>> ELSE <<Head(urls)>>)
         \o not_in(Tail(urls), existing)

Record(url, s, date) ==
    [title |-> get_title(s), content |-> get_article_content(s),
     date |-> date.val, url |-> url]

-----------------------------------------------------------------------------
(* State of a run *)

Pending(n) == [i \in 1..n |-> "pending"]

Nones(n) == [i \in 1..n |-> None]

Ended == pc \in {"done", "crashed"}

AllDone == \A i \in DOMAIN outcomes : outcomes[i] # "pending"

NoRun == [prog |-> "", cands |-> {}, ok |-> FALSE]

\* the run ended normally, every fetch of its batch succeeded and the index
\* listed the same set of URLs each time the run fetched it
RunOk ==
    /\ pc = "done"
    /\ err = ""
    /\ \A i \in DOMAIN outcomes : outcomes[i] = "ok"
    /\ branch = "resync" => Set(todo) = listed

LastRun == [prog |-> prog, cands |-> listed, ok |-> RunOk]

\* the run of script p that lists the URLs l comes after a run of p that
\* listed the same URLs and ended with RunOk
Repeats(p, l) == last.ok /\ last.prog = p /\ last.cands = Set(l)

Init ==
    /\ dir \in BOOLEAN
    /\ store = NoFile
    /\ pc = "idle"
    /\ prog = ""
    /\ err = ""
    /\ listed = {}
    /\ new_urls = <<>>
    /\ branch = ""
    /\ todo = <<>>
    /\ outcomes = <<>>
    /\ soups = <<>>
    /\ order = <<>>
    /\ data = <<>>
    /\ pre = NoFile
    /\ last = NoRun
    /\ repeat = FALSE
    /\ glibc = TRUE
    /\ soup = NoTime
    /\ caller = ""
    /\ result = NotCalled

-----------------------------------------------------------------------------
(* collect_and_update_data.py *)

\* get_content(url, session): the soup, or None after a logged
\* requests.RequestException (transport error, timeout, status not 2xx)
collect_get_content(url, out, t) == IF out = "ok" THEN Page(url, t) ELSE None

\* DataFrame.to_csv(csv_file, index=False)
to_csv(rows) == [exists |-> TRUE, header |-> TRUE, rows |-> rows]

\* main up to the first fetch: check_csv_exists_and_fetch_missing
CollectStart ==
    /\ pc = "idle"
    /\ prog' = "collect"
    /\ pre' = store
    /\ last' = NoRun
    /\ order' = <<>>
    /\ data' = <<>>
    /\ LET r == pd_read_url(store)
       IN  IF store.exists /\ r.exc # ""
           THEN /\ pc' = "crashed"
                /\ err' = r.exc
                /\ listed' = {}
                /\ new_urls' = <<>>
                /\ branch' = ""
                /\ todo' = <<>>
                /\ outcomes' = <<>>
                /\ soups' = <<>>
                /\ repeat' = FALSE
           ELSE \E resp \in IndexResponses :
                    \E nu \in set_difference(get_discursos_urls(resp), r.urls) :
                        /\ Len(store.rows) + Len(nu) <= MaxRows
                        /\ err' = ""
                        /\ listed' = Set(get_discursos_urls(resp))
                        /\ repeat' = Repeats("collect", get_discursos_urls(resp))
                        /\ new_urls' = nu
                        /\ todo' = nu
                        /\ outcomes' = Pending(Len(nu))
                        /\ soups' = Nones(Len(nu))
                        /\ branch' = IF nu # <<>> THEN "new" ELSE "resync"
                        /\ pc' = IF nu # <<>> THEN "c_fetch" ELSE "c_index"
    /\ UNCHANGED <<dir, store, glibc, dateVars>>

\* main, the else branch: get_discursos_urls a second time
CollectIndex ==
    /\ pc = "c_index"
    /\ \E resp \in IndexResponses :
           /\ todo' = get_discursos_urls(resp)
           /\ outcomes' = Pending(Len(get_discursos_urls(resp)))
           /\ soups' = Nones(Len(get_discursos_urls(resp)))
    /\ pc' = "c_fetch"
    /\ UNCHANGED <<dir, store, prog, err, listed, new_urls, branch, order, data,
                   pre, last, repeat, glibc, dateVars>>

\* create_dataframe: one turn of the loop over discursos_urls
CollectFetch ==
    /\ pc = "c_fetch"
    /\ ~AllDone
    /\ LET i == Cardinality({j \in DOMAIN outcomes : outcomes[j] # "pending"}) + 1
       IN  \E out \in {"ok", "error"}, t \in PageTimes :
               LET s == collect_get_content(todo[i], out, t)
                   date == collect_get_date(s, glibc)
               IN  /\ out = "error" => t = NoTime
                   /\ outcomes' = [outcomes EXCEPT ![i] = out]
                   /\ IF s = None
                      THEN UNCHANGED <<pc, err, data>>
                      ELSE IF date.kind = "raise"
                      THEN /\ pc' = "crashed"
                           /\ err' = date.exc
                           /\ UNCHANGED data
                      ELSE /\ data' = Append(data, Record(todo[i], s, date))
                           /\ UNCHANGED <<pc, err>>
    /\ UNCHANGED <<dir, store, prog, listed, new_urls, branch, todo, soups, order,
                   pre, last, repeat, glibc, dateVars>>

\* main after create_dataframe: concat, sort and to_csv, or to_csv alone
CollectWrite ==
    /\ pc = "c_fetch"
    /\ AllDone
    /\ IF branch = "new"
       THEN /\ dir' = TRUE
            /\ IF store.exists
               THEN \E rows \in sort_values(store.rows \o data) : store' = to_csv(rows)
               ELSE store' = to_csv(data)
            /\ pc' = "done"
            /\ UNCHANGED err
       ELSE IF dir
       THEN /\ store' = to_csv(data)
            /\ pc' = "done"
            /\ UNCHANGED <<dir, err>>
       ELSE /\ pc' = "crashed"
            /\ err' = "OSError"
            /\ UNCHANGED <<dir, store>>
    /\ UNCHANGED <<prog, listed, new_urls, branch, todo, outcomes, soups, order,
                   data, pre, last, repeat, glibc, dateVars>>

-----------------------------------------------------------------------------
(* monitor_website.py *)

\* get_content(url): the soup, or None after a logged aiohttp.ClientError.
\* The total timeout of the session raises asyncio.TimeoutError, which is no
\* ClientError: that outcome is an exception, not a value.
monitor_get_content(url, out, t) == IF out = "ok" THEN Page(url, t) ELSE None

\* variant: the results in the order in which the tasks completed
gather_as_completed(results, completed) ==
    [i \in 1..Len(results) |-> results[completed[i]]]

\* asyncio.gather(*tasks): the results in the order of the tasks
gather(results, completed) == results

\* create_data, the loop over zip(discursos_urls, soups); exc is the exception
\* get_date raised, if any
RECURSIVE zip_loop(_, _, _)
zip_loop(urls, got, gnu) ==
    IF urls = <<>> THEN [data |-> <<>>, exc |-> ""]
    ELSE IF Head(got) = None THEN zip_loop(Tail(urls), Tail(got), gnu)
    ELSE LET date == monitor_get_date(Head(got), gnu)
             rest == zip_loop(Tail(urls), Tail(got), gnu)
         IN  IF date.kind = "raise" THEN [data |-> <<>>, exc |-> date.exc]
             ELSE [data |-> <<Record(Head(urls), Head(got), date)>> \o rest.data,
                   exc |-> rest.exc]

\* main_async up to asyncio.gather
MonitorStart ==
    /\ pc = "idle"
    /\ prog' = "monitor"
    /\ pre' = store
    /\ last' = NoRun
    /\ order' = <<>>
    /\ data' = <<>>
    /\ err' = ""
    /\ \E resp \in IndexResponses :
           LET nu == not_in(get_discursos_urls(resp), read_csv(store))
           IN  /\ Len(store.rows) + Len(nu) <= MaxRows
               /\ listed' = Set(get_discursos_urls(resp))
               /\ repeat' = Repeats("monitor", get_discursos_urls(resp))
               /\ new_urls' = nu
               /\ todo' = nu
               /\ outcomes' = Pending(Len(nu))
               /\ soups' = Nones(Len(nu))
               /\ branch' = IF nu # <<>> THEN "new" ELSE "skip"
               /\ pc' = IF nu # <<>> THEN "m_gather" ELSE "done"
    /\ UNCHANGED <<dir, store, glibc, dateVars>>

\* one get_content task of the fan-out completes
MonitorTaskDone ==
    /\ pc = "m_gather"
    /\ \E i \in DOMAIN outcomes, out \in {"ok", "client_error", "timeout"},
          t \in PageTimes :
           /\ outcomes[i] = "pending"
           /\ out # "ok" => t = NoTime
           /\ outcomes' = [outcomes EXCEPT ![i] = out]
           /\ order' = Append(order, i)
           /\ IF out = "timeout"
              THEN /\ pc' = "crashed"
                   /\ err' = "TimeoutError"
                   /\ UNCHANGED soups
              ELSE /\ soups' = [soups EXCEPT ![i] = monitor_get_content(todo[i], out, t)]
                   /\ UNCHANGED <<pc, err>>
    /\ UNCHANGED <<dir, store, prog, listed, new_urls, branch, todo, data, pre,
                   last, repeat, glibc, dateVars>>

\* create_data after the gather, then append_to_csv
MonitorJoin ==
    /\ pc = "m_gather"
    /\ AllDone
    /\ LET made == zip_loop(todo, gather(soups, order), glibc)
       IN  IF made.exc # ""
           THEN /\ pc' = "crashed"
                /\ err' = made.exc
                /\ UNCHANGED <<store, data>>
           ELSE /\ data' = made.data
                /\ pc' = "done"
                /\ IF dir
                   THEN /\ store' = append_to_csv(made.data, store)
                        /\ UNCHANGED err
                   ELSE /\ err' = "IOError"
                        /\ UNCHANGED store
    /\ UNCHANGED <<dir, prog, listed, new_urls, branch, todo, outcomes, soups,
                   order, pre, last, repeat, glibc, dateVars>>

-----------------------------------------------------------------------------

\* the script's process ends: what the run held in memory is gone (last
\* notes what the run was, for the run that follows)
Exit ==
    /\ Ended
    /\ last' = LastRun
    /\ pc' = "idle"
    /\ prog' = ""
    /\ err' = ""
    /\ listed' = {}
    /\ new_urls' = <<>>
    /\ branch' = ""
    /\ todo' = <<>>
    /\ outcomes' = <<>>
    /\ soups' = <<>>
    /\ order' = <<>>
    /\ data' = <<>>
    /\ pre' = NoFile
    /\ repeat' = FALSE
    /\ UNCHANGED <<dir, store, glibc, dateVars>>

Next ==
    \/ CollectStart
    \/ CollectIndex
    \/ CollectFetch
    \/ CollectWrite
    \/ MonitorStart
    \/ MonitorTaskDone
    \/ MonitorJoin
    \/ Exit

Spec == Init /\ [][Next]_vars

-----------------------------------------------------------------------------
(* Direct calls of the two get_date functions *)

Dows == {"lunes", "viernes"}

DayTokens ==
    {<<1>>, <<0, 5>>, <<1, 3>>, <<2, 8>>, <<2, 9>>, <<3, 0>>, <<3, 1>>, <<3, 2>>, <<0>>}

MonthTokens ==
    {W(m) : m \in DOMAIN month_map} \cup
    {W("Febrero"), W("brumario"), N(<<0, 2>>), N(<<1, 3>>)}

YearTokens == {<<2, 0, 2, 4>>, <<2, 0, 2, 5>>, <<0, 9, 9, 9>>, <<0, 0, 0, 0>>, <<2, 5>>}

SixTokens ==
    {<<W(dow), N(d), W("de"), m, W("de"), N(y)>> :
        dow \in Dows, d \in DayTokens, m \in MonthTokens, y \in YearTokens}

\* the documents handed to get_date: texts of six tokens, the same without
\* the day of the week, with a token after the year, with "del" for the
\* first "de", the empty text, and a document with no time element
DateSoups ==
    {Doc(t) : t \in SixTokens} \cup
    {Doc(Tail(t)) : t \in SixTokens} \cup
    {Doc(t \o <<W("hs")>>) : t \in SixTokens} \cup
    {Doc([t EXCEPT ![3] = W("del")]) : t \in SixTokens} \cup
    {Doc(<<>>), NoTime}

InitDate ==
    /\ dir = TRUE
    /\ store = NoFile
    /\ pc = "idle"
    /\ prog = ""
    /\ err = ""
    /\ listed = {}
    /\ new_urls = <<>>
    /\ branch = ""
    /\ todo = <<>>
    /\ outcomes = <<>>
    /\ soups = <<>>
    /\ order = <<>>
    /\ data = <<>>
    /\ pre = NoFile
    /\ last = NoRun
    /\ repeat = FALSE
    /\ glibc \in BOOLEAN
    /\ soup \in DateSoups
    /\ caller = ""
    /\ result = NotCalled

CallCollectGetDate ==
    /\ result = NotCalled
    /\ caller' = "collect"
    /\ result' = collect_get_date(soup, glibc)
    /\ UNCHANGED <<pipeVars, glibc, soup>>

CallMonitorGetDate ==
    /\ result = NotCalled
    /\ caller' = "monitor"
    /\ result' = monitor_get_date(soup, glibc)
    /\ UNCHANGED <<pipeVars, glibc, soup>>

NextDate ==
    \/ CallCollectGetDate
    \/ CallMonitorGetDate

SpecDate == InitDate /\ [][NextDate]_vars

-----------------------------------------------------------------------------
(* Properties *)

NoDup(q) == \A i, j \in DOMAIN q : i # j => q[i] # q[j]

Count(r, q) == Cardinality({i \in DOMAIN q : q[i] = r})

SameRows(a, b) == \A r \in Set(a) \cup Set(b) : Count(r, a) = Count(r, b)

\* the URLs of the batch whose fetch succeeded, in batch order
RECURSIVE OkUrls(_, _)
OkUrls(urls, outs) ==
    IF urls = <<>> THEN <<>>
    ELSE (IF Head(outs) = "ok" THEN <<Head(urls)>> ELSE <<>>)
         \o OkUrls(Tail(urls), Tail(outs))

Sorted(rows) ==
    \A i, j \in DOMAIN rows : i < j => ~DateLess(rows[i].date, rows[j].date)

\* C1: the persisted store never holds two records with the same url.
C1_NoDuplicateUrls == store.exists => NoDup(Urls(store.rows))

\* C2: a run that ends normally leaves in the store every url that was in it
\* when the run began.
C2_NoDeletion ==
    pc = "done" => Set(Urls(pre.rows)) \subseteq Set(Urls(store.rows))

\* C3: a failed fetch never ends the run, and a run that ends normally has
\* one record for each URL of the batch whose fetch succeeded and none for
\* the others.
C3_FailureContained ==
    /\ pc = "crashed" => err # "TimeoutError"
    /\ pc = "done" => Urls(data) = OkUrls(todo, outcomes)

\* C4: a run that repeats the previous run (same script, same URLs listed,
\* every fetch succeeding in both, no URL twice in its batch, no duplicate in the
\* store it starts from) leaves a store with no duplicate URLs and with as
\* many records as it found.
C4_Idempotent ==
    (pc = "done" /\ repeat /\ RunOk /\ NoDup(todo)
        /\ NoDup(Urls(pre.rows)))
    => /\ NoDup(Urls(store.rows))
       /\ Len(store.rows) = Len(pre.rows)

\* C5: reading a persisted store back gives exactly the URLs of its records,
\* for the file the scripts leave and for a file written by write_to_csv.
C5_RoundTrip ==
    /\ store.exists => Set(read_csv(store)) = Set(Urls(store.rows))
    /\ Set(read_csv(write_to_csv(data))) = Set(Urls(data))

\* the new-URL delta was non-empty: the batch is the delta, the URLs listed
\* that the store did not give back, and the store holds the records it held
\* before together with those of the batch (monitor: appended in order;
\* collect: sorted by date when there was a store)
MergedDelta ==
    /\ todo = new_urls
    /\ Set(new_urls) = listed \ Set(read_csv(pre))
    /\ store.exists
    /\ SameRows(store.rows, pre.rows \o data)
    /\ prog = "monitor" => store.rows = pre.rows \o data
    /\ (prog = "collect" /\ pre.exists) => Sorted(store.rows)

WellFormed(text) ==
    /\ Len(text) = 6
    /\ text[1].w # ""
    /\ IsNum(text[2]) /\ Len(text[2].d) <= 2
    /\ text[3] = W("de")
    /\ text[4].w \in DOMAIN month_map
    /\ text[5] = W("de")
    /\ IsNum(text[6]) /\ Len(text[6].d) = 4
    /\ Value(text[6].d) >= 1
    /\ Value(text[2].d) >= 1
    /\ Value(text[2].d) <= DaysInMonth(Value(text[6].d), Value(month_map[text[4].w]))

MonthNames ==
    <<"enero", "febrero", "marzo", "abril", "mayo", "junio", "julio", "agosto",
      "septiembre", "octubre", "noviembre", "diciembre">>

MonthNumber(name) == CHOOSE i \in DOMAIN MonthNames : MonthNames[i] = name

\* 'YYYY-MM-DD' worked out by hand from the six tokens
ByHand(text) ==
    <<text[6].d,
      IF MonthNumber(text[4].w) < 10 THEN <<0, MonthNumber(text[4].w)>>
      ELSE <<1, MonthNumber(text[4].w) - 10>>,
      IF Len(text[2].d) = 1 THEN <<0>> \o text[2].d ELSE text[2].d>>

\* C7: get_date returns the absent value, and does not raise, for a
\* document with no time element or with a text that is not of the form
\* '<dow> <day> de <month-name> de <year>'.
C7_AbsentNeverRaises ==
    (caller # "" /\ (~soup.has_time \/ ~WellFormed(soup.text))) => result = Absent

C9_TestGetDate ==
    (caller = "monitor" /\ soup = Doc(TestText))
    => result = Returned(<<<<2, 0, 2, 5>>, <<0, 2>>, <<1, 3>>>>)

\* C10: in a monitor run each record of the batch has the title, content and
\* date of the document fetched from its own url, whatever the order in
\* which the fetches completed, and the records are those of the URLs whose
\* fetch succeeded.
C10_UrlKeepsItsDocument ==
    (pc = "done" /\ prog = "monitor")
    => /\ Urls(data) = OkUrls(todo, outcomes)
       /\ \A i \in DOMAIN data :
              /\ data[i].title = data[i].url
              /\ data[i].content = data[i].url
              /\ \E j \in DOMAIN todo :
                     /\ todo[j] = data[i].url
                     /\ soups[j] # None
                     /\ data[i] = Record(todo[j], soups[j], monitor_get_date(soups[j], glibc))

\* two fetches of different URLs completed in the reverse of the order in
\* which they were issued, and both records are in the batch
C10_Witness ==
    /\ pc = "done"
    /\ prog = "monitor"
    /\ order = <<2, 1>>
    /\ Len(data) = 2
    /\ data[1].url # data[2].url

====
